---- MODULE Spec2Model ----
(***************************************************************************)
(* Model of simulate_taylor.py: the fixed-point helpers, the pipelined     *)
(* Horner evaluator TaylorPolyPipeline and the test runner run_test.       *)
(***************************************************************************)
EXTENDS Integers, Sequences, FiniteSets, TLC

VARIABLES
    \* TaylorPolyPipeline: the fields set by the constructor
    coeffs, order, x0, DW, FB, latency,
    \* TaylorPolyPipeline: the pipeline registers, indexed 0..order
    dx_r, acc_r, vld_r,
    \* the last call made on the evaluator ("new": none since construction),
    \* the pair clock returned, and the exception the call raised
    op, ret, exc,
    \* history: the arguments of the clock calls since construction or the
    \* last reset (the latest order+1 of them), how many such calls there
    \* were (counted up to order+2), and whether that reset found a valid
    \* flag set in some stage
    hist, ncalls, dropped,
    \* a call of fp_mul_trunc: its arguments and, once made, its result
    call,
    \* run_test: its arguments x_values and expected_reals (indexed from 0)
    \* and its locals tol, xfp, sr, cycle, pass_cnt and fail_cnt; where the
    \* call stands ("idle": not called, "loop", "done": returned); and what
    \* the latest iteration of the loop compared
    x_values, expected_reals, tol, xfp, sr, cycle, pass_cnt, fail_cnt, pc, chk,
    \* main: its locals total_pass and total_fail; where it stands ("idle":
    \* not called, "test1" and "test2": in its first and second run_test,
    \* "returned"); the status it returned (-1: none yet); and, as history,
    \* the pair <<pass_cnt, fail_cnt>> each of its run_test calls returned
    total_pass, total_fail, main_pc, status, runs

dut  == <<coeffs, order, x0, DW, FB, latency>>
regs == <<dx_r, acc_r, vld_r>>
test == <<x_values, expected_reals, tol, xfp, sr, cycle, pass_cnt, fail_cnt,
          pc, chk>>
mainv == <<total_pass, total_fail, main_pc, status, runs>>
vars == <<coeffs, order, x0, DW, FB, latency, dx_r, acc_r, vld_r,
          op, ret, exc, hist, ncalls, dropped, call,
          x_values, expected_reals, tol, xfp, sr, cycle, pass_cnt, fail_cnt,
          pc, chk, total_pass, total_fail, main_pc, status, runs>>
\* the variables that are no part of the evaluator
rest == <<call, x_values, expected_reals, tol, xfp, sr, cycle, pass_cnt,
          fail_cnt, pc, chk, total_pass, total_fail, main_pc, status, runs>>

(***************************************************************************)
(* Python integers.  A Python int is unbounded; TLC's integers are 32 bits *)
(* wide and a 32-bit by 32-bit product does not fit them.  A Python int is *)
(* therefore kept as its two's-complement digits in base 256, least        *)
(* significant digit first, eight digits long: every value the program     *)
(* computes from data widths up to 32 has a magnitude below 2^63, so the   *)
(* eight digits hold it exactly.                                           *)
(***************************************************************************)
DigitIdx == 1..8

\* the Python int n (n a TLC integer)
Big(n) ==
    [k \in DigitIdx |->
        IF k = 1 THEN n % 256
        ELSE IF k = 2 THEN (n \div 256) % 256
        ELSE IF k = 3 THEN (n \div 65536) % 256
        ELSE IF k = 4 THEN (n \div 16777216) % 256
        ELSE IF n < 0 THEN 255 ELSE 0]

\* v < 0
BigNeg(v) == v[8] >= 128

RECURSIVE AddDigits(_, _, _, _)
AddDigits(a, b, k, carry) ==
    IF k > 8 THEN << >>
    ELSE LET s == a[k] + b[k] + carry
         IN  <<s % 256>> \o AddDigits(a, b, k + 1, s \div 256)

\* a + b
BigAdd(a, b) == AddDigits(a, b, 1, 0)

\* a - b
BigSub(a, b) == AddDigits(a, [k \in DigitIdx |-> 255 - b[k]], 1, 1)

\* the sum of the digit products a[i]*b[j] of weight 256^(k-1)
RECURSIVE Column(_, _, _, _)
Column(a, b, k, i) ==
    IF i > k THEN 0 ELSE a[i] * b[k + 1 - i] + Column(a, b, k, i + 1)

RECURSIVE MulDigits(_, _, _, _)
MulDigits(a, b, k, carry) ==
    IF k > 8 THEN << >>
    ELSE LET s == Column(a, b, k, 1) + carry
         IN  <<s % 256>> \o MulDigits(a, b, k + 1, s \div 256)

\* a * b (exact: the product of two values below 2^31 in magnitude)
BigMul(a, b) == MulDigits(a, b, 1, 0)

\* digit k of a, the sign digit past the eighth and 0 below the first
Digit(a, k) ==
    IF k < 1 THEN 0
    ELSE IF k <= 8 THEN a[k]
    ELSE IF a[8] >= 128 THEN 255 ELSE 0

RECURSIVE ScaleDigits(_, _, _, _)
ScaleDigits(a, m, k, carry) ==
    IF k > 8 THEN << >>
    ELSE LET s == a[k] * m + carry
         IN  <<s % 256>> \o ScaleDigits(a, m, k + 1, s \div 256)

\* a << n, n >= 0: whole digits first, then the bits left
BigShl(a, n) ==
    ScaleDigits([k \in DigitIdx |-> Digit(a, k - (n \div 8))], 2 ^ (n % 8), 1, 0)

\* a >> n, n >= 0, the arithmetic shift: it rounds toward minus infinity
BigShr(a, n) ==
    [k \in DigitIdx |->
        ((Digit(a, k + (n \div 8)) + 256 * Digit(a, k + (n \div 8) + 1))
            \div (2 ^ (n % 8))) % 256]

RECURSIVE DigitAnd(_, _)
DigitAnd(x, y) ==
    IF x = 0 \/ y = 0 THEN 0
    ELSE (x % 2) * (y % 2) + 2 * DigitAnd(x \div 2, y \div 2)

\* a & b on the two's-complement digits
BigAnd(a, b) == [k \in DigitIdx |-> DigitAnd(a[k], b[k])]

\* a >= b
BigGe(a, b) == ~BigNeg(BigSub(a, b))

\* the TLC integer of a Python int that fits 32 bits
IntOf(v) ==
    v[1] + 256 * v[2] + 65536 * v[3]
         + 16777216 * (IF v[4] >= 128 THEN v[4] - 256 ELSE v[4])

(***************************************************************************)
(* Fixed-point helpers                                                     *)
(***************************************************************************)

\* to_signed(v, bits): reinterpret an unsigned integer as two's complement
to_signed(v, bits) ==
    IF BigGe(v, BigShl(Big(1), bits - 1))
    THEN BigSub(v, BigShl(Big(1), bits))
    ELSE v

\* to_unsigned(v, bits): v & ((1 << bits) - 1)
to_unsigned(v, bits) == BigAnd(v, BigSub(BigShl(Big(1), bits), Big(1)))

\* fp_mul_trunc shifting the magnitude: it rounds toward zero
fp_mul_trunc_toward_zero(a, b, data_width, frac_bits) ==
    LET product == BigMul(a, b)
        shifted == IF BigNeg(product)
                   THEN BigSub(Big(0), BigShr(BigSub(Big(0), product), frac_bits))
                   ELSE BigShr(product, frac_bits)
    IN  to_signed(to_unsigned(shifted, data_width), data_width)

\* fp_mul_trunc with the product kept in data_width bits
fp_mul_trunc_narrow_product(a, b, data_width, frac_bits) ==
    LET product == to_signed(to_unsigned(BigMul(a, b), data_width), data_width)
        shifted == BigShr(product, frac_bits)
    IN  to_signed(to_unsigned(shifted, data_width), data_width)

\* fp_mul_trunc(a, b, data_width, frac_bits)
fp_mul_trunc(a, b, data_width, frac_bits) ==
    LET product == BigMul(a, b)
        shifted == BigShr(product, frac_bits)
    IN  to_signed(to_unsigned(shifted, data_width), data_width)

(***************************************************************************)
(* Python floats.  Every float the program handles here is a dyadic        *)
(* rational of a few bits, which float arithmetic computes exactly; it is  *)
(* kept as the record [n, e] of value n / 2^e.                             *)
(***************************************************************************)

Real(n, e) == [n |-> n, e |-> e]

\* abs(a - b)
RealAbsDiff(a, b) ==
    LET d == a.n * (2 ^ b.e) - b.n * (2 ^ a.e)
    IN  Real(IF d < 0 THEN -d ELSE d, a.e + b.e)

\* a <= b
RealLe(a, b) == a.n * (2 ^ b.e) <= b.n * (2 ^ a.e)

\* round(num / den), den > 0: to the nearest integer, a tie to the even one
Round(num, den) ==
    LET q == num \div den
        r == num % den
    IN  IF 2 * r < den THEN q
        ELSE IF 2 * r > den THEN q + 1
        ELSE IF q % 2 = 0 THEN q ELSE q + 1

\* real_to_fp(r, frac_bits, data_width)
real_to_fp(r, frac_bits, data_width) ==
    LET raw == Round(r.n * (2 ^ frac_bits), 2 ^ r.e)
    IN  to_signed(to_unsigned(Big(raw), data_width), data_width)

\* fp_to_real(v, frac_bits)
fp_to_real(v, frac_bits) == Real(IntOf(v), frac_bits)

(***************************************************************************)
(* TaylorPolyPipeline                                                      *)
(***************************************************************************)

\* what clock returns when it has not been called
NoRet == [valid |-> FALSE, y |-> Big(0)]

\* __init__(coeffs, order, x0, data_width, frac_bits): the state it leaves
__init__(c, n, x, data_width, frac_bits) ==
    /\ coeffs  = c
    /\ order   = n
    /\ x0      = x
    /\ DW      = data_width
    /\ FB      = frac_bits
    /\ latency = n + 1
    /\ dx_r    = [i \in 0..n |-> Big(0)]
    /\ acc_r   = [i \in 0..n |-> Big(0)]
    /\ vld_r   = [i \in 0..n |-> FALSE]
    /\ op = "new" /\ ret = NoRet /\ exc = "none"
    /\ hist = << >> /\ ncalls = 0 /\ dropped = FALSE

\* reset() that clears the data registers and leaves the valid flags
reset_keeps_valid ==
    /\ dx_r'  = [i \in 0..order |-> Big(0)]
    /\ acc_r' = [i \in 0..order |-> Big(0)]
    /\ op' = "reset" /\ ret' = NoRet /\ exc' = "none"
    /\ hist' = << >> /\ ncalls' = 0
    /\ dropped' = (\E i \in 0..order : vld_r[i])
    /\ UNCHANGED <<dut, vld_r>>

\* reset() that clears stage 0 only
reset_first_stage ==
    /\ dx_r'  = [dx_r EXCEPT ![0] = Big(0)]
    /\ acc_r' = [acc_r EXCEPT ![0] = Big(0)]
    /\ vld_r' = [vld_r EXCEPT ![0] = FALSE]
    /\ op' = "reset" /\ ret' = NoRet /\ exc' = "none"
    /\ hist' = << >> /\ ncalls' = 0
    /\ dropped' = (\E i \in 0..order : vld_r[i])
    /\ UNCHANGED dut

\* reset() that builds register lists one stage short
reset_one_stage_short ==
    /\ dx_r'  = [i \in 0..(order - 1) |-> Big(0)]
    /\ acc_r' = [i \in 0..(order - 1) |-> Big(0)]
    /\ vld_r' = [i \in 0..(order - 1) |-> FALSE]
    /\ op' = "reset" /\ ret' = NoRet /\ exc' = "none"
    /\ hist' = << >> /\ ncalls' = 0
    /\ dropped' = (\E i \in DOMAIN vld_r : vld_r[i])
    /\ UNCHANGED dut

\* reset()
reset ==
    /\ dx_r'  = [i \in 0..order |-> Big(0)]
    /\ acc_r' = [i \in 0..order |-> Big(0)]
    /\ vld_r' = [i \in 0..order |-> FALSE]
    /\ op' = "reset" /\ ret' = NoRet /\ exc' = "none"
    /\ hist' = << >> /\ ncalls' = 0
    /\ dropped' = (\E i \in 0..order : vld_r[i])
    /\ UNCHANGED dut

\* dx_next reading stage i-1 after the same call has written it: the loop
\* storing into the registers as it goes, stage i-1 already holds what stage
\* i-2 held before the call
dx_next_in_place(i) == IF i >= 2 THEN dx_r[i - 2] ELSE dx_r[i - 1]

\* the next value of stage i's delta register, i in 1..order
dx_next(i) == dx_r[i - 1]

\* acc_next with the coefficients taken in ascending order
acc_next_ascending(i) ==
    LET prod_trunc == fp_mul_trunc(dx_r[i - 1], acc_r[i - 1], DW, FB)
        coeff_k    == coeffs[i]
    IN  to_signed(to_unsigned(BigAdd(coeff_k, prod_trunc), DW), DW)

\* acc_next with the sum clamped to the range limits
acc_next_saturating(i) ==
    LET prod_trunc == fp_mul_trunc(dx_r[i - 1], acc_r[i - 1], DW, FB)
        coeff_k    == coeffs[order - i]
        sum        == BigAdd(coeff_k, prod_trunc)
        top        == BigSub(BigShl(Big(1), DW - 1), Big(1))
        bottom     == BigSub(Big(0), BigShl(Big(1), DW - 1))
    IN  IF BigGe(sum, top) THEN top
        ELSE IF BigGe(bottom, sum) THEN bottom
        ELSE sum

\* the next value of stage i's accumulator, i in 1..order
acc_next(i) ==
    LET prod_trunc == fp_mul_trunc(dx_r[i - 1], acc_r[i - 1], DW, FB)
        coeff_k    == coeffs[order - i]
    IN  to_signed(to_unsigned(BigAdd(coeff_k, prod_trunc), DW), DW)

\* vld_next reading the stage's own flag
vld_next_same_stage(i) == vld_r[i]

\* the next value of stage i's valid flag, i in 1..order
vld_next(i) == vld_r[i - 1]

\* dx_next_0 storing the difference as it is
dx_next_0_unwrapped(x_in) == BigSub(x_in, x0)

\* the next value of stage 0's delta register
dx_next_0(x_in) == to_signed(to_unsigned(BigSub(x_in, x0), DW), DW)

\* acc_next_0 running the multiply-accumulate on stage 0 too
acc_next_0_multiplied ==
    to_signed(to_unsigned(
        BigAdd(coeffs[order], fp_mul_trunc(dx_r[0], acc_r[0], DW, FB)), DW), DW)

\* acc_next_0 seeded with the lowest coefficient
acc_next_0_lowest == coeffs[0]

\* the next value of stage 0's accumulator
acc_next_0 == coeffs[order]

\* the latest n entries of the sequence s
Latest(s, n) == IF Len(s) <= n THEN s ELSE SubSeq(s, Len(s) - n + 1, Len(s))

\* clock raises nothing: no negative shift count, no index past the list
ClockRuns ==
    /\ DW >= 1
    /\ order \in DOMAIN coeffs
    /\ (order >= 1 => FB >= 0)

\* clock(valid_in, x_in): one rising clock edge
clock(valid_in, x_in) ==
    /\ ClockRuns
    /\ dx_r'  = [i \in 0..order |-> IF i = 0 THEN dx_next_0(x_in) ELSE dx_next(i)]
    /\ acc_r' = [i \in 0..order |-> IF i = 0 THEN acc_next_0 ELSE acc_next(i)]
    /\ vld_r' = [i \in 0..order |-> IF i = 0 THEN valid_in ELSE vld_next(i)]
    /\ ret'   = [valid |-> vld_r'[order], y |-> acc_r'[order]]
    /\ op' = "clock" /\ exc' = "none"
    /\ hist' = Latest(Append(hist, [valid |-> valid_in, x |-> x_in]), order + 1)
    /\ ncalls' = IF ncalls < order + 2 THEN ncalls + 1 ELSE ncalls
    /\ UNCHANGED <<dut, dropped>>

(***************************************************************************)
(* The evaluator driven by any sequence of clock and reset calls           *)
(***************************************************************************)

\* the largest polynomial order constructed
MaxOrder == 2

\* the fixed-point formats <<data_width, frac_bits>> constructed
Formats == {<<4, 2>>}

MinVal(dw) == -(2 ^ (dw - 1))
MaxVal(dw) == 2 ^ (dw - 1) - 1

\* the coefficient lists constructed for order n: x^n, as in main's first
\* evaluator, and a descending list with one more entry than is used
CoeffLists(n, dw, fb) ==
    { [k \in 0..n |-> Big(IF k = n THEN 2 ^ fb ELSE 0)],
      [k \in 0..(n + 1) |-> Big(MaxVal(dw) - 3 * k)] }

\* the expansion points constructed
X0s == {0, 3}

\* the x_in values passed to clock: the most negative value of the format
\* and a value past its positive end
XIn(dw) == {MinVal(dw), MaxVal(dw) + 3}

\* len(l) of a list indexed from 0
PyLen(l) == Cardinality(DOMAIN l)

\* l[i], a negative i counting from the end of the list
PyItem(l, i) == IF i < 0 THEN l[PyLen(l) + i] ELSE l[i]

\* the latest iteration compared nothing
NoCheck == [made |-> FALSE, cycle |-> 0, yout |-> Big(0), got |-> Real(0, 0),
            expected |-> Real(0, 0), lbl_x |-> Real(0, 0), passed |-> FALSE]

\* run_test is not called
TestIdle ==
    /\ x_values = << >> /\ expected_reals = << >> /\ tol = Real(0, 0)
    /\ xfp = << >> /\ sr = << >> /\ cycle = 0
    /\ pass_cnt = 0 /\ fail_cnt = 0 /\ pc = "idle" /\ chk = NoCheck

\* main is not called
MainIdle ==
    /\ total_pass = 0 /\ total_fail = 0 /\ main_pc = "idle"
    /\ status = -1 /\ runs = << >>

\* no call of fp_mul_trunc is under way
NoCall == [a |-> 0, b |-> 0, data_width |-> 0, frac_bits |-> 0,
           done |-> FALSE, result |-> Big(0)]

Init ==
    /\ \E n \in 0..MaxOrder, f \in Formats, x \in X0s :
          \E c \in CoeffLists(n, f[1], f[2]) :
              __init__(c, n, Big(x), f[1], f[2])
    /\ call = NoCall /\ TestIdle /\ MainIdle

Clock ==
    /\ \E valid_in \in BOOLEAN, x \in XIn(DW) : clock(valid_in, Big(x))
    /\ UNCHANGED rest

Reset == reset /\ UNCHANGED rest

Next == Clock \/ Reset

Spec == Init /\ [][Next]_vars

(***************************************************************************)
(* main's first evaluator, f(x) = x^2 in Q15.16, driven by any sequence of *)
(* clock and reset calls                                                   *)
(***************************************************************************)

FP_1 == 65536
FP_0 == 0

\* quad_coeffs, indexed from 0
quad_coeffs ==
    [k \in 0..7 |-> Big(IF k = 2 THEN FP_1 ELSE FP_0)]

\* dut_quad as constructed
dut_quad == __init__(quad_coeffs, 2, Big(0), 32, 16)

\* the fixed-point values of x = -2.0, 1.0 and 3.0 of x_quad
XQuad == {-131072, 65536, 196608}

InitQuad == dut_quad /\ call = NoCall /\ TestIdle /\ MainIdle

ClockQuad ==
    /\ \E valid_in \in BOOLEAN, x \in XQuad : clock(valid_in, Big(x))
    /\ UNCHANGED rest

ResetQuad == reset /\ UNCHANGED rest

NextQuad == ClockQuad \/ ResetQuad

SpecQuad == InitQuad /\ [][NextQuad]_vars

(***************************************************************************)
(* fp_mul_trunc called on every pair of values of a format                 *)
(***************************************************************************)

\* the largest data width fp_mul_trunc is called with
MaxMulWidth == 4

\* the calls made: every format with 0 < frac_bits < data_width and every
\* pair of signed values of its width
InitMul ==
    /\ dut_quad /\ TestIdle /\ MainIdle
    /\ \E dw \in 2..MaxMulWidth :
          \E fb \in 1..(dw - 1), a \in MinVal(dw)..MaxVal(dw),
             b \in MinVal(dw)..MaxVal(dw) :
              call = [a |-> a, b |-> b, data_width |-> dw, frac_bits |-> fb,
                      done |-> FALSE, result |-> Big(0)]

MulCall ==
    /\ ~call.done
    /\ call' = [call EXCEPT
                  !.done = TRUE,
                  !.result = fp_mul_trunc(Big(call.a), Big(call.b),
                                          call.data_width, call.frac_bits)]
    /\ UNCHANGED <<dut, regs, op, ret, exc, hist, ncalls, dropped, test, mainv>>

NextMul == MulCall

SpecMul == InitMul /\ [][NextMul]_vars

(***************************************************************************)
(* The constructor called with any arguments                               *)
(***************************************************************************)

\* the arguments break the constructor's contract
BadArguments ==
    \/ \E k \in 0..order : k \notin DOMAIN coeffs
    \/ DW <= 0
    \/ FB <= 0

\* a coefficient list of m entries
ListOfLength(m) == [k \in 0..(m - 1) |-> Big(3 - 2 * k)]

InitAny ==
    /\ \E n \in 0..MaxOrder, m \in 0..(MaxOrder + 1),
          dw \in {-1, 0, 4}, fb \in {-1, 0, 2} :
            __init__(ListOfLength(m), n, Big(0), dw, fb)
    /\ call = NoCall /\ TestIdle /\ MainIdle

ClockAny ==
    /\ \E valid_in \in BOOLEAN, x \in {-8, 10} : clock(valid_in, Big(x))
    /\ UNCHANGED rest

\* clock on an evaluator it cannot run on: the exception leaves before the
\* registers are committed
ClockRaises ==
    /\ ~ClockRuns
    /\ op' = "clock" /\ ret' = NoRet
    /\ exc' = IF DW <= 0 THEN "ValueError"
              ELSE IF order \notin DOMAIN coeffs THEN "IndexError"
              ELSE "ValueError"
    /\ UNCHANGED <<dut, regs, hist, ncalls, dropped, rest>>

ResetAny == reset /\ UNCHANGED rest

NextAny == ClockAny \/ ClockRaises \/ ResetAny

SpecAny == InitAny /\ [][NextAny]_vars

(***************************************************************************)
(* run_test on a freshly constructed evaluator                             *)
(***************************************************************************)

\* the most inputs run_test is called with
MaxInputs == 2

\* the x values passed: -0.625, a tie of the rounding, and 2.25, past the
\* positive end of the narrow format
XReals == {Real(-5, 3), Real(9, 2)}

\* the expected values passed: 1.75 and -0.125
EReals == {Real(7, 2), Real(-1, 3)}

\* the tolerances passed, in LSBs
TolLsbs == {1, 16}

\* run_test(dut, x_values, expected_reals, label, tol_lsb) up to its loop
run_test(xs, es, tol_lsb) ==
    /\ x_values = xs
    /\ expected_reals = es
    /\ tol = Real(tol_lsb, FB)
    /\ xfp = [k \in DOMAIN xs |-> real_to_fp(xs[k], FB, DW)]
    /\ sr = [k \in 0..(latency - 1) |-> Real(0, 0)]
    /\ pass_cnt = 0 /\ fail_cnt = 0
    /\ cycle = 0 /\ pc = "loop" /\ chk = NoCheck

\* total_cycles without the drain cycles
total_cycles_no_drain == PyLen(x_values)

\* total_cycles
total_cycles == PyLen(x_values) + latency

\* [exp] + sr[:-1] with the new value appended at the other end
shifted_sr_reversed(exp) ==
    [k \in 0..(PyLen(sr) - 1) |-> IF k = PyLen(sr) - 1 THEN exp ELSE sr[k + 1]]

\* [exp] + sr[:-1]
shifted_sr(exp) ==
    [k \in 0..(PyLen(sr) - 1) |-> IF k = 0 THEN exp ELSE sr[k - 1]]

\* the comparison of a valid output: what chk records of it
compared(yout, expected) ==
    LET got == fp_to_real(yout, FB)
        err == RealAbsDiff(got, expected)
    IN  [made |-> TRUE, cycle |-> cycle, yout |-> yout, got |-> got,
         expected |-> expected,
         lbl_x |-> PyItem(x_values, cycle - latency),
         passed |-> RealLe(err, tol)]

\* one iteration of the loop, which ends the run at the first mismatch
run_test_cycle_halting ==
    /\ pc = "loop" /\ cycle < total_cycles
    /\ LET vin == cycle < PyLen(x_values)
           xin == IF vin THEN xfp[cycle] ELSE Big(0)
           exp == IF vin THEN expected_reals[cycle] ELSE Real(0, 0)
       IN  /\ sr' = shifted_sr(exp)
           /\ clock(vin, xin)
           /\ chk' = IF ret'.valid THEN compared(ret'.y, sr'[PyLen(sr') - 1])
                     ELSE NoCheck
           /\ pass_cnt' = IF chk'.made /\ chk'.passed THEN pass_cnt + 1
                          ELSE pass_cnt
           /\ fail_cnt' = IF chk'.made /\ ~chk'.passed THEN fail_cnt + 1
                          ELSE fail_cnt
           /\ pc' = IF chk'.made /\ ~chk'.passed THEN "done" ELSE "loop"
    /\ cycle' = cycle + 1
    /\ UNCHANGED <<call, x_values, expected_reals, tol, xfp, mainv>>

\* one iteration of the loop of run_test
run_test_cycle ==
    /\ pc = "loop" /\ cycle < total_cycles
    /\ LET vin == cycle < PyLen(x_values)
           xin == IF vin THEN xfp[cycle] ELSE Big(0)
           exp == IF vin THEN expected_reals[cycle] ELSE Real(0, 0)
       IN  /\ sr' = shifted_sr(exp)
           /\ clock(vin, xin)
           /\ chk' = IF ret'.valid THEN compared(ret'.y, sr'[PyLen(sr') - 1])
                     ELSE NoCheck
           /\ pass_cnt' = IF chk'.made /\ chk'.passed THEN pass_cnt + 1
                          ELSE pass_cnt
           /\ fail_cnt' = IF chk'.made /\ ~chk'.passed THEN fail_cnt + 1
                          ELSE fail_cnt
    /\ cycle' = cycle + 1
    /\ UNCHANGED <<call, x_values, expected_reals, tol, xfp, pc, mainv>>

\* the loop is over: return pass_cnt, fail_cnt
run_test_return ==
    /\ pc = "loop" /\ cycle >= total_cycles
    /\ pc' = "done"
    /\ UNCHANGED <<dut, regs, op, ret, exc, hist, ncalls, dropped, call,
                   x_values, expected_reals, tol, xfp, sr, cycle, pass_cnt,
                   fail_cnt, chk, mainv>>

InitTest ==
    /\ \E n \in 0..MaxOrder, f \in Formats, x \in X0s :
          \E c \in CoeffLists(n, f[1], f[2]) :
              __init__(c, n, Big(x), f[1], f[2])
    /\ call = NoCall /\ MainIdle
    /\ \E len \in 1..MaxInputs, tol_lsb \in TolLsbs :
          \E xs \in [0..(len - 1) -> XReals], es \in [0..(len - 1) -> EReals] :
              run_test(xs, es, tol_lsb)

NextTest == run_test_cycle \/ run_test_return

SpecTest == InitTest /\ [][NextTest]_vars

(***************************************************************************)
(* main: two evaluators, one run_test on each, and the exit status.  The   *)
(* evaluators have main's orders, expansion point and coefficients, these  *)
(* in the narrow format; the tables passed to run_test are any tables of   *)
(* up to MaxInputs entries, so that runs with and without mismatches both  *)
(* occur; the tolerances are main's                                        *)
(***************************************************************************)

\* quad_coeffs in a format of fb fractional bits: FP_1 is 1.0
quad_coeffs_in(fb) ==
    [k \in 0..7 |-> Big(IF k = 2 THEN 2 ^ fb ELSE 0)]

\* exp_coeffs in a format of fb fractional bits: FP_1, FP_1, FP_HALF and
\* the roundings FP_1_6 and FP_1_24 of 1/6 and 1/24
exp_coeffs_in(fb) ==
    [k \in 0..7 |->
        Big(IF k \in {0, 1} THEN 2 ^ fb
            ELSE IF k = 2 THEN 2 ^ (fb - 1)
            ELSE IF k = 3 THEN Round(2 ^ fb, 6)
            ELSE IF k = 4 THEN Round(2 ^ fb, 24)
            ELSE 0)]

\* the expected values in the tables main passes: -0.125 and 6.0
MainEReals == {Real(-1, 3), Real(6, 0)}

\* main up to the loop of its first run_test
InitMain ==
    /\ \E f \in Formats : __init__(quad_coeffs_in(f[2]), 2, Big(0), f[1], f[2])
    /\ call = NoCall
    /\ total_pass = 0 /\ total_fail = 0
    /\ main_pc = "test1" /\ status = -1 /\ runs = << >>
    /\ \E len \in 1..MaxInputs :
          \E xs \in [0..(len - 1) -> XReals], es \in [0..(len - 1) -> MainEReals] :
              run_test(xs, es, 2)

\* main from the return of its first run_test to the loop of its second:
\* the totals, the construction of dut_exp and the entry of run_test
main_second_test ==
    /\ main_pc = "test1" /\ pc = "done"
    /\ total_pass' = total_pass + pass_cnt
    /\ total_fail' = total_fail + fail_cnt
    /\ runs' = Append(runs, <<pass_cnt, fail_cnt>>)
    /\ coeffs' = exp_coeffs_in(FB) /\ order' = 4 /\ x0' = Big(0)
    /\ DW' = DW /\ FB' = FB /\ latency' = 4 + 1
    /\ dx_r'  = [i \in 0..4 |-> Big(0)]
    /\ acc_r' = [i \in 0..4 |-> Big(0)]
    /\ vld_r' = [i \in 0..4 |-> FALSE]
    /\ op' = "new" /\ ret' = NoRet /\ exc' = "none"
    /\ hist' = << >> /\ ncalls' = 0 /\ dropped' = FALSE
    /\ \E len \in 1..MaxInputs :
          \E xs \in [0..(len - 1) -> XReals], es \in [0..(len - 1) -> MainEReals] :
              /\ x_values' = xs
              /\ expected_reals' = es
              /\ tol' = Real(16, FB)
              /\ xfp' = [k \in DOMAIN xs |-> real_to_fp(xs[k], FB, DW)]
    /\ sr' = [k \in 0..4 |-> Real(0, 0)]
    /\ pass_cnt' = 0 /\ fail_cnt' = 0
    /\ cycle' = 0 /\ pc' = "loop" /\ chk' = NoCheck
    /\ main_pc' = "test2"
    /\ UNCHANGED <<status, call>>

\* main's return taking the status from its second run alone
main_return_last_run ==
    /\ main_pc = "test2" /\ pc = "done"
    /\ total_pass' = total_pass + pass_cnt
    /\ total_fail' = total_fail + fail_cnt
    /\ runs' = Append(runs, <<pass_cnt, fail_cnt>>)
    /\ status' = IF fail_cnt = 0 THEN 0 ELSE 1
    /\ main_pc' = "returned"
    /\ UNCHANGED <<dut, regs, op, ret, exc, hist, ncalls, dropped, call, test>>

\* main from the return of its second run_test to its own return
main_return ==
    /\ main_pc = "test2" /\ pc = "done"
    /\ total_pass' = total_pass + pass_cnt
    /\ total_fail' = total_fail + fail_cnt
    /\ runs' = Append(runs, <<pass_cnt, fail_cnt>>)
    /\ status' = IF total_fail' = 0 THEN 0 ELSE 1
    /\ main_pc' = "returned"
    /\ UNCHANGED <<dut, regs, op, ret, exc, hist, ncalls, dropped, call, test>>

NextMain ==
    run_test_cycle \/ run_test_return \/ main_second_test \/ main_return

SpecMain == InitMain /\ [][NextMain]_vars

(***************************************************************************)
(* Properties of the evaluator                                             *)
(***************************************************************************)

\* the arguments of the latest clock call
LastIn == hist[Len(hist)]

\* the unique value of the signed dw-bit range congruent to s modulo 2^dw
WrapRef(s, dw) ==
    CHOOSE v \in MinVal(dw)..MaxVal(dw) : (v - s) % (2 ^ dw) = 0

\* s clamped to the limits of the signed dw-bit range
ClampRef(s, dw) ==
    IF s > MaxVal(dw) THEN MaxVal(dw)
    ELSE IF s < MinVal(dw) THEN MinVal(dw)
    ELSE s

RECURSIVE Horner(_, _)
Horner(i, d) ==
    IF i = 0 THEN coeffs[order]
    ELSE to_signed(to_unsigned(
             BigAdd(coeffs[order - i], fp_mul_trunc(d, Horner(i - 1, d), DW, FB)),
             DW), DW)

\* h_order of the input x
HornerValue(x) ==
    Horner(order, to_signed(to_unsigned(BigSub(x, x0), DW), DW))

\* C2: every output returned valid is the fixed-point Horner value of the
\* input that entered with that valid flag, `order` calls before, whatever
\* was passed on the calls in between and before
C2_HornerPipelined ==
    (op = "clock" /\ ret.valid) =>
        /\ Len(hist) = order + 1
        /\ hist[1].valid
        /\ ret.y = HornerValue(hist[1].x)

\* C2, witness: a valid output of an evaluator of order 2 or more whose
\* input was followed by a call with another x
C2_Witness ==
    /\ op = "clock" /\ ret.valid /\ order >= 2
    /\ hist[2].x # hist[1].x
    /\ ret.y = HornerValue(hist[1].x)
    /\ ret.y # HornerValue(hist[2].x)

\* C4: a clock call stores in every stage i >= 1 the value of the signed
\* range congruent modulo 2^DW to the exact sum coeffs[order-i] + prod, and
\* in stage 0 the one congruent to the exact difference x_in - x0
C4_Wraparound ==
    [][op' = "clock" =>
        /\ \A i \in 1..order :
              acc_r'[i] =
                Big(WrapRef(IntOf(coeffs[order - i])
                              + IntOf(fp_mul_trunc(dx_r[i - 1], acc_r[i - 1], DW, FB)),
                            DW))
        /\ dx_r'[0] =
              Big(WrapRef(IntOf(hist'[Len(hist')].x) - IntOf(x0), DW))]_vars

\* the exact sum that the latest call wrapped into stage 1, from the
\* arguments of the call before it
Stage1Sum ==
    IntOf(coeffs[order - 1])
      + IntOf(fp_mul_trunc(
                to_signed(to_unsigned(BigSub(hist[Len(hist) - 1].x, x0), DW), DW),
                coeffs[order], DW, FB))

\* C4, witness: the latest call wrapped a difference below the range into
\* stage 0 and a sum above the range into stage 1, and neither is clamped
C4_Witness ==
    /\ op = "clock" /\ order >= 1 /\ Len(hist) >= 2
    /\ IntOf(LastIn.x) - IntOf(x0) < MinVal(DW)
    /\ dx_r[0] = Big(IntOf(LastIn.x) - IntOf(x0) + 2 ^ DW)
    /\ dx_r[0] # Big(MinVal(DW))
    /\ Stage1Sum > MaxVal(DW)
    /\ acc_r[1] = Big(Stage1Sum - 2 ^ DW)
    /\ acc_r[1] # Big(ClampRef(Stage1Sum, DW))

\* C5: after reset() every valid flag is clear, and none of the next
\* `order` clock calls returns a valid output, whatever they are passed
C5_ResetDiscards ==
    /\ op = "reset" => \A i \in 0..order : ~vld_r[i]
    /\ (op = "clock" /\ ncalls <= order) => ~ret.valid

\* C5, witness: a reset found valid data in flight, `order` calls with
\* valid_in = TRUE followed it, and the latest of them returned no output
C5_Witness ==
    /\ dropped /\ op = "clock" /\ order >= 2 /\ ncalls = order
    /\ \A j \in 1..Len(hist) : hist[j].valid
    /\ ~ret.valid

\* C8: an evaluator of order 0 has latency 1; the clock call that is
\* passed an input returns coeffs[0] itself, valid exactly when that input
\* is, whatever x_in and the earlier inputs are
C8_ZeroOrder ==
    order = 0 =>
        /\ latency = 1
        /\ op = "clock" => (ret.y = coeffs[0] /\ ret.valid = LastIn.valid)

\* C8, witness: an order-0 evaluator with x0 = 3 returned its c0 for a valid
\* input whose delta is not 0, after an earlier call
C8_Witness ==
    /\ order = 0 /\ op = "clock" /\ ncalls >= 2
    /\ LastIn.valid /\ ret.valid
    /\ dx_r[0] # Big(0)
    /\ ret.y = coeffs[0] /\ coeffs[0] # Big(0)

\* C10: main's first evaluator (order 2, x0 = 0, Q15.16, coefficients
\* 0, 0, 65536) passed x_in = 196608 with valid_in = TRUE returns, on the
\* third clock call counting that one, a valid output of exactly 589824,
\* whatever the two calls after it are passed
C10_QuadOfThree ==
    (op = "clock" /\ Len(hist) = 3
       /\ hist[1] = [valid |-> TRUE, x |-> Big(196608)]) =>
        ret = [valid |-> TRUE, y |-> Big(589824)]

\* C10, witness: the third call since construction or reset, the first of
\* them having passed 3.0, returned 9.0
C10_Witness ==
    /\ op = "clock" /\ ncalls = 3
    /\ hist[1] = [valid |-> TRUE, x |-> Big(196608)]
    /\ hist[2].x # Big(196608)
    /\ ret.valid /\ ret.y = Big(589824)

\* the delta wrap(x - x0) of an x passed to clock
Delta(x) == to_signed(to_unsigned(BigSub(x, x0), DW), DW)

\* C12: a clock call replaces all stages at once: for every stage i in
\* 1..order the delta and the valid flag after the call are those of stage
\* i-1 before the call, and the accumulator after the call is the wrapped
\* sum of coeffs[order-i] and the truncated product of the delta and the
\* accumulator of stage i-1 before the call; nothing written by the call
\* is read by it
C12_SimultaneousUpdate ==
    [][op' = "clock" =>
        \A i \in 1..order :
            /\ dx_r'[i] = dx_r[i - 1]
            /\ vld_r'[i] = vld_r[i - 1]
            /\ acc_r'[i] =
                  to_signed(to_unsigned(
                      BigAdd(coeffs[order - i],
                             fp_mul_trunc(dx_r[i - 1], acc_r[i - 1], DW, FB)),
                      DW), DW)]_vars

\* C12, witness: after three calls with differing arguments on an evaluator
\* of order 2, every stage holds the delta and the flag of its own call:
\* stage 2 those of the first call, stage 1 those of the second
C12_Witness ==
    /\ op = "clock" /\ order = 2 /\ Len(hist) = 3
    /\ hist[1].x # hist[2].x /\ hist[2].x # hist[3].x
    /\ hist[1].valid # hist[2].valid
    /\ dx_r[2] = Delta(hist[1].x) /\ dx_r[1] = Delta(hist[2].x)
    /\ dx_r[2] # dx_r[1] /\ dx_r[1] # dx_r[0]
    /\ vld_r[2] = hist[1].valid /\ vld_r[1] = hist[2].valid

\* C13: after every clock call, whatever the stages held before it and
\* whether valid_in was TRUE or FALSE, stage 0 holds the accumulator
\* coeffs[order], the flag valid_in and the delta that is the value of the
\* signed range congruent to x_in - x0 modulo 2^DW
C13_StageZeroReseed ==
    op = "clock" =>
        /\ acc_r[0] = coeffs[order]
        /\ vld_r[0] = LastIn.valid
        /\ dx_r[0] = Big(WrapRef(IntOf(LastIn.x) - IntOf(x0), DW))

\* C13, witness: a call with valid_in = FALSE, made after a call with
\* valid_in = TRUE and another x_in, has re-seeded stage 0 of an evaluator
\* of order 1 or more: the coefficient is not 0 and the earlier contents of
\* stage 0 have moved to stage 1
C13_Witness ==
    /\ op = "clock" /\ order >= 1 /\ Len(hist) >= 2
    /\ ~LastIn.valid /\ hist[Len(hist) - 1].valid
    /\ ~vld_r[0] /\ vld_r[1]
    /\ dx_r[0] = Delta(LastIn.x) /\ dx_r[1] # dx_r[0]
    /\ acc_r[0] = coeffs[order] /\ coeffs[order] # Big(0)
    /\ coeffs[order] # coeffs[0]

\* the registers as the constructor leaves them
FreshRegs ==
    /\ dx_r  = [i \in 0..order |-> Big(0)]
    /\ acc_r = [i \in 0..order |-> Big(0)]
    /\ vld_r = [i \in 0..order |-> FALSE]

\* C14: after reset(), in whatever state it is called, every stage 0..order
\* has delta 0, accumulator 0 and a clear valid flag, which are the
\* registers of a freshly constructed evaluator; a reset() that follows a
\* reset() changes no register
C14_ResetPostcondition ==
    /\ [](op = "new" => FreshRegs)
    /\ [](op = "reset" =>
            /\ FreshRegs
            /\ \A i \in 0..order :
                  dx_r[i] = Big(0) /\ acc_r[i] = Big(0) /\ vld_r[i] = FALSE)
    /\ [][(op = "reset" /\ op' = "reset") => regs' = regs]_vars

\* C14, witness: a reset() called on an evaluator of order 1 or more with
\* valid data in flight has left the registers of a fresh evaluator
C14_Witness ==
    /\ op = "reset" /\ dropped /\ order >= 1
    /\ FreshRegs

\* v lies in the signed DW-bit range
InRange(v) == BigGe(v, Big(MinVal(DW))) /\ BigGe(Big(MaxVal(DW)), v)

\* C15: when every coefficient lies in the signed DW-bit range, then in
\* every state reached by clock and reset calls, x_in being any integer,
\* every stage's delta and accumulator and the y returned by clock lie in
\* [-2^(DW-1), 2^(DW-1)-1]
C15_RegisterRange ==
    (\A k \in DOMAIN coeffs : InRange(coeffs[k])) =>
        /\ \A i \in 0..order : InRange(dx_r[i]) /\ InRange(acc_r[i])
        /\ InRange(ret.y)

\* C15, witness: a clock call was passed an x_in above the range, the call
\* before it produced a sum outside the range for stage 1, and the
\* registers and the returned y are in range all the same
C15_Witness ==
    /\ op = "clock" /\ order >= 1 /\ Len(hist) >= 2
    /\ \A k \in DOMAIN coeffs : InRange(coeffs[k])
    /\ IntOf(LastIn.x) > MaxVal(DW)
    /\ Stage1Sum \notin MinVal(DW)..MaxVal(DW)
    /\ InRange(dx_r[0]) /\ InRange(acc_r[1]) /\ InRange(ret.y)

\* C16: no clock or reset call changes coeffs, order, x0, DW, FB or
\* latency; in every reachable state each of the three register lists has
\* order+1 stages, indexed 0..order, and latency is order+1
C16_Frame ==
    /\ [][dut' = dut]_vars
    /\ [](/\ latency = order + 1
          /\ DOMAIN dx_r = 0..order /\ PyLen(dx_r) = order + 1
          /\ DOMAIN acc_r = 0..order /\ PyLen(acc_r) = order + 1
          /\ DOMAIN vld_r = 0..order /\ PyLen(vld_r) = order + 1)

\* C16, witness: after a reset that found data in flight and two more clock
\* calls, the registers of an evaluator of order 2 are no longer those of a
\* fresh one, and the stage count and the latency are as constructed
C16_Witness ==
    /\ op = "clock" /\ dropped /\ ncalls = 2 /\ order = 2
    /\ ~FreshRegs /\ vld_r[0] /\ dx_r[1] # Big(0)
    /\ latency = 3 /\ PyLen(dx_r) = 3 /\ PyLen(acc_r) = 3 /\ PyLen(vld_r) = 3

(***************************************************************************)
(* Properties of the fixed-point helpers                                   *)
(***************************************************************************)

\* bit k of the two's-complement integer p
Bit(p, k) == (p \div (2 ^ k)) % 2

\* the sum of the bits lo..hi-1 of p, bit j weighing 2^(j-lo)
RECURSIVE LowBits(_, _, _)
LowBits(p, lo, hi) ==
    IF hi <= lo THEN 0 ELSE Bit(p, lo) + 2 * LowBits(p, lo + 1, hi)

\* bits [dw+fb-1 : fb] of p read as a signed dw-bit value
BitSlice(p, dw, fb) ==
    LowBits(p, fb, fb + dw - 1) - Bit(p, fb + dw - 1) * (2 ^ (dw - 1))

\* p shifted right with the quotient rounded toward zero
ShiftTowardZero(p, fb) ==
    IF p < 0 THEN -((-p) \div (2 ^ fb)) ELSE p \div (2 ^ fb)

\* C3: fp_mul_trunc(a, b, data_width, frac_bits) is bits
\* [data_width+frac_bits-1 : frac_bits] of the exact product a*b read as a
\* signed data_width-bit value, which is the product floor-divided by
\* 2^frac_bits and wrapped modulo 2^data_width
C3_TruncatingMultiply ==
    call.done =>
        LET p == call.a * call.b
        IN  /\ call.result = Big(BitSlice(p, call.data_width, call.frac_bits))
            /\ call.result =
                  Big(WrapRef(p \div (2 ^ call.frac_bits), call.data_width))

\* C3, witness: a negative product with discarded bits set whose floored
\* quotient lies below the range: the result is the wrapped floor, neither
\* the quotient rounded toward zero nor the range limit
C3_Witness ==
    LET p == call.a * call.b
        q == p \div (2 ^ call.frac_bits)
    IN  /\ call.done
        /\ p < 0 /\ p % (2 ^ call.frac_bits) # 0
        /\ q < MinVal(call.data_width)
        /\ call.result = Big(q + 2 ^ call.data_width)
        /\ call.result #
              Big(WrapRef(ShiftTowardZero(p, call.frac_bits), call.data_width))
        /\ call.result # Big(MinVal(call.data_width))

(***************************************************************************)
(* Properties of the constructor                                           *)
(***************************************************************************)

\* C7: constructing with a coefficient list shorter than order+1, or with a
\* data width or fractional-bit count that is not positive, raises at
\* construction: no evaluator exists that a call could later be made on
C7_ConstructionFailsFast ==
    BadArguments => (op = "new" /\ exc # "none")

(***************************************************************************)
(* Properties of run_test                                                  *)
(***************************************************************************)

\* C6: on every cycle whose output is valid, the value run_test takes from
\* the end of the delay line is expected_reals[j] for the index j of the
\* input the output was computed from: j is a position of x_values, the
\* output is the Horner value of xfp[j], and the expected value is entry j,
\* never another entry and never the 0.0 of a drain cycle or of the fill
C6_HarnessAlignment ==
    chk.made =>
        LET j == chk.cycle - order
        IN  /\ j \in DOMAIN x_values
            /\ chk.yout = HornerValue(xfp[j])
            /\ chk.expected = expected_reals[j]

\* C6, witness: in a drain cycle of a run over two inputs with different
\* x and different expected values, the second input's output was
\* compared with the second expected value
C6_Witness ==
    /\ chk.made /\ order >= 1 /\ PyLen(x_values) = 2
    /\ chk.cycle >= PyLen(x_values)
    /\ chk.cycle - order = 1
    /\ x_values[0] # x_values[1]
    /\ expected_reals[0] # expected_reals[1]
    /\ chk.yout = HornerValue(xfp[1]) /\ chk.yout # HornerValue(xfp[0])
    /\ chk.expected = expected_reals[1]

\* the output yout misses the expected value by more than the tolerance
Mismatch(yout, expected) ==
    ~RealLe(RealAbsDiff(Real(IntOf(yout), FB), expected), tol)

\* C9: an iteration whose valid output misses the expected value by more
\* than the tolerance adds exactly one to fail_cnt, leaves pass_cnt and
\* stays in the loop; run_test returns only after all
\* len(x_values)+latency cycles, with every later output compared
C9_MismatchContinues ==
    /\ [][(pc = "loop" /\ cycle' = cycle + 1 /\ ret'.valid
             /\ Mismatch(ret'.y, sr'[PyLen(sr') - 1])) =>
            (/\ fail_cnt' = fail_cnt + 1
             /\ pass_cnt' = pass_cnt
             /\ pc' = "loop")]_vars
    /\ [](pc = "done" =>
            /\ cycle = PyLen(x_values) + latency
            /\ pass_cnt + fail_cnt = PyLen(x_values))

\* C9, witness: after the first comparison of a run had failed, the loop
\* went on into the drain cycles and the second comparison passed
C9_Witness ==
    /\ pc = "loop" /\ cycle > PyLen(x_values)
    /\ fail_cnt = 1 /\ pass_cnt = 1
    /\ chk.made /\ chk.passed

\* the number of inputs whose output has come out after n clock calls
OutputsAfter(n) ==
    IF n - order <= 0 THEN 0
    ELSE IF n - order >= PyLen(x_values) THEN PyLen(x_values)
    ELSE n - order

\* C17 as amended: run_test on a fresh evaluator calls clock once per
\* iteration and len(x_values)+latency times in all: with valid_in = TRUE
\* and the converted input on the first len(x_values) calls, with
\* valid_in = FALSE and x_in = 0 on the drain calls.  The comparison of
\* input j is made in cycle j+order and in no other, so that a drain call's
\* filler is never compared, the last `order` inputs are compared during
\* the drain cycles, none is lost, and run_test returns with
\* pass_cnt + fail_cnt = len(x_values)
C17_EveryInputOnce ==
    /\ [][cycle' # cycle =>
            /\ cycle' = cycle + 1 /\ op' = "clock"
            /\ hist'[Len(hist')] =
                  IF cycle < PyLen(x_values)
                  THEN [valid |-> TRUE,
                        x |-> real_to_fp(x_values[cycle], FB, DW)]
                  ELSE [valid |-> FALSE, x |-> Big(0)]
            /\ chk'.made <=> (cycle - order \in 0..(PyLen(x_values) - 1))]_vars
    /\ [](pc = "loop" =>
            /\ cycle <= PyLen(x_values) + latency
            /\ pass_cnt + fail_cnt = OutputsAfter(cycle))
    /\ [](pc = "done" =>
            /\ cycle = PyLen(x_values) + latency
            /\ pass_cnt + fail_cnt = PyLen(x_values))

\* C17, witness: in the second drain cycle of a run over two inputs on an
\* evaluator of order 2, the call was passed the filler and the output of
\* the second input was compared, which completed the count
C17_Witness ==
    /\ pc = "loop" /\ order = 2 /\ PyLen(x_values) = 2
    /\ cycle = 4 /\ op = "clock"
    /\ LastIn = [valid |-> FALSE, x |-> Big(0)]
    /\ chk.made /\ chk.cycle = 3 /\ chk.yout = HornerValue(xfp[1])
    /\ pass_cnt + fail_cnt = 2

\* C17 as claimed: no drain cycle produces a comparison: a comparison is
\* made only in the cycles that pass an input, those before len(x_values)
C17_Original ==
    chk.made => chk.cycle < PyLen(x_values)

\* C18: for every compared output, the index cycle - latency of the x shown
\* in the label lies in 0..len(x_values)-1 and is the index j of the input
\* the output was computed from, whose expected_reals[j] is compared: the
\* label shows x_values[j]
C18_LabelCorrect ==
    chk.made =>
        LET j == chk.cycle - order
        IN  /\ chk.cycle - latency \in 0..(PyLen(x_values) - 1)
            /\ chk.cycle - latency = j
            /\ chk.expected = expected_reals[j]
            /\ chk.lbl_x = x_values[j]

(***************************************************************************)
(* Properties of main                                                      *)
(***************************************************************************)

\* C11: a comparison that failed is counted in the fail count of its run;
\* main returns after two run_test calls, and the status it returns is 0 if
\* and only if the fail counts those calls returned sum to zero; a fail
\* count above zero in either call makes the status 1
C11_ExitStatus ==
    /\ (chk.made /\ ~chk.passed) => fail_cnt >= 1
    /\ main_pc = "returned" =>
          /\ Len(runs) = 2 /\ runs[2][2] = fail_cnt
          /\ status = 0 <=> (runs[1][2] + runs[2][2] = 0)
          /\ (runs[1][2] > 0 \/ runs[2][2] > 0) => status = 1

\* C11, witness: main returned 1 after a first run with one mismatch among
\* two comparisons and a second run without any
C11_Witness ==
    /\ main_pc = "returned" /\ status = 1
    /\ runs[1] = <<1, 1>> /\ runs[2][1] >= 1 /\ runs[2][2] = 0
    /\ fail_cnt = 0 /\ total_fail = 1

====
